---- MODULE Spec2Model ----
(***************************************************************************)
(* Model of cvescan/options.py: construction of an Options object from    *)
(* the parsed command line (args) and the system information (sysinfo).   *)
(*                                                                         *)
(* Python strings are sequences of one-character strings, so that the     *)
(* regular expression, the path functions and the %-formatting are        *)
(* computed on characters.  None is the one-element sequence <<"None">>,  *)
(* which no character sequence equals.  The Options object is a function  *)
(* from the names of the attributes assigned so far to their values.      *)
(***************************************************************************)
EXTENDS Integers, Sequences, FiniteSets, TLC

VARIABLES args, sysinfo, pc, self, err, calls

vars == <<args, sysinfo, pc, self, err, calls>>

\* ------------------------------------------------------------------------
\* Bounds of the enumerated inputs
\* ------------------------------------------------------------------------
MinYearDigits == 3
MaxYearDigits == 5
MinSeqDigits == 3
MaxSeqDigits == 5

\* ------------------------------------------------------------------------
\* Python values
\* ------------------------------------------------------------------------
None == <<"None">>

\* truth value of an optional string: None and "" are false
Truthy(x) == x # None /\ x # <<>>

Digits == {"0", "1", "2", "3", "4", "5", "6", "7", "8", "9"}

\* ------------------------------------------------------------------------
\* Module constants of options.py
\* ------------------------------------------------------------------------
FMT_CVE_OPTION == "-c|--cve"
FMT_FILE_OPTION == "-f|--file"
FMT_MANIFEST_OPTION == "-m|--manifest"
FMT_NAGIOS_OPTION == "-n|--nagios"
FMT_UCT_LINKS_OPTION == "--uct-links"
FMT_SILENT_OPTION == "-s|--silent"
FMT_UNRESOLVED_OPTION == "--unresolved"
FMT_VERBOSE_OPTION == "-v|--verbose"

\* MANIFEST_URL_TEMPLATE % (a, b)
MANIFEST_URL_TEMPLATE(a, b) ==
    <<"h", "t", "t", "p", "s", ":", "/", "/", "c", "l", "o", "u", "d", "-", "i", "m", "a", "g", "e", "s", ".", "u", "b", "u", "n", "t", "u", ".", "c", "o", "m", "/">> \o a \o <<"/", "c", "u", "r", "r", "e", "n", "t", "/">> \o b
        \o <<"-", "s", "e", "r", "v", "e", "r", "-", "c", "l", "o", "u", "d", "i", "m", "g", "-", "a", "m", "d", "6", "4", ".", "m", "a", "n", "i", "f", "e", "s", "t">>

OVAL_BASE_URL == <<"h", "t", "t", "p", "s", ":", "/", "/", "p", "e", "o", "p", "l", "e", ".", "c", "a", "n", "o", "n", "i", "c", "a", "l", ".", "c", "o", "m", "/", "~", "u", "b", "u", "n", "t", "u", "-", "s", "e", "c", "u", "r", "i", "t", "y", "/", "o", "v", "a", "l">>

\* const.DEBUG_LOG, defined in cvescan/constants.py
DEBUG_LOG == <<"d", "e", "b", "u", "g", ".", "l", "o", "g">>

\* ------------------------------------------------------------------------
\* The environment: working directory and regular files
\* ------------------------------------------------------------------------
getcwd == <<"/", "w">>

RegularFiles == { <<"/", "w", "/", "m">>, <<"/", "o">> }

isfile(p) == p \in RegularFiles

isabs(p) == Len(p) > 0 /\ p[1] = "/"

\* os.path.join(a, b) for a relative b and a directory a without a
\* trailing slash
join(a, b) == a \o <<"/">> \o b

\* the components of p between slashes, as a sequence of strings
RECURSIVE SplitSlash(_, _, _)
SplitSlash(p, i, cur) ==
    IF i > Len(p) THEN <<cur>>
    ELSE IF p[i] = "/" THEN <<cur>> \o SplitSlash(p, i + 1, <<>>)
    ELSE SplitSlash(p, i + 1, Append(cur, p[i]))

\* normpath's loop over the components of an absolute path: "" and "." are
\* dropped, ".." removes the component before it (nothing at the root)
RECURSIVE NormComps(_, _, _)
NormComps(comps, i, acc) ==
    IF i > Len(comps) THEN acc
    ELSE LET c == comps[i] IN
         IF c = <<>> \/ c = <<".">> THEN NormComps(comps, i + 1, acc)
         ELSE IF c = <<".", ".">>
              THEN NormComps(comps, i + 1,
                             IF Len(acc) > 0 THEN SubSeq(acc, 1, Len(acc) - 1)
                             ELSE acc)
              ELSE NormComps(comps, i + 1, Append(acc, c))

RECURSIVE JoinSlash(_, _)
JoinSlash(comps, i) ==
    IF i > Len(comps) THEN <<>>
    ELSE <<"/">> \o comps[i] \o JoinSlash(comps, i + 1)

\* os.path.normpath of an absolute path with one leading slash
normpath(p) ==
    LET comps == NormComps(SplitSlash(p, 1, <<>>), 1, <<>>)
    IN  IF Len(comps) = 0 THEN <<"/">> ELSE JoinSlash(comps, 1)

\* os.path.abspath
abspath(p) == normpath(IF isabs(p) THEN p ELSE join(getcwd, p))

\* ------------------------------------------------------------------------
\* re.match(r"^CVE-[0-9]{4}-[0-9]{4,}$", s)
\* ------------------------------------------------------------------------
CveYearDigits == 4
CveSeqMinDigits == 4

\* s is CVE-, CveYearDigits digits, -, and CveSeqMinDigits or more digits
CveRegexBody(s) ==
    LET p == 4 + CveYearDigits + 1 IN
    /\ Len(s) >= p + CveSeqMinDigits
    /\ SubSeq(s, 1, 4) = <<"C", "V", "E", "-">>
    /\ \A i \in 5 .. (p - 1) : s[i] \in Digits
    /\ s[p] = "-"
    /\ \A i \in (p + 1) .. Len(s) : s[i] \in Digits

\* "$" matches at the end of the string and also just before a newline that
\* is the last character of the string
cve_regex_match(s) ==
    \/ CveRegexBody(s)
    \/ /\ Len(s) > 0
       /\ s[Len(s)] = "\n"
       /\ CveRegexBody(SubSeq(s, 1, Len(s) - 1))

\* ------------------------------------------------------------------------
\* Errors
\* ------------------------------------------------------------------------
NoError == [kind |-> "NoError", by |-> "", msg |-> <<>>]

ArgumentError(by, msg) == [kind |-> "ArgumentError", by |-> by, msg |-> msg]

ValueError(by, msg) == [kind |-> "ValueError", by |-> by, msg |-> msg]

raise_incompatible_arguments_error(by, arg1, arg2) ==
    ArgumentError(by, <<"The ", arg1, " and ", arg2,
                        " options are incompatible and may not be specified together.">>)

\* ------------------------------------------------------------------------
\* The validation functions: each is the error the function raises on args,
\* NoError when it returns normally.  A definition M_f is f with one plausible
\* slip, used to show that a property depends on f.
\* ------------------------------------------------------------------------
invalid_cve(a) ==
    IF a.cve # None /\ ~cve_regex_match(a.cve)
    THEN ValueError("raise_on_invalid_cve", <<"Invalid CVE ID (">> \o a.cve \o <<")">>)
    ELSE NoError

M_invalid_manifest_options(a) ==
    IF Truthy(a.file) /\ Truthy(a.manifest)
    THEN ArgumentError("raise_on_invalid_manifest_options",
                       <<"Cannot specify ", FMT_FILE_OPTION, " argument without ",
                         FMT_MANIFEST_OPTION, ".">>)
    ELSE NoError

invalid_manifest_options(a) ==
    IF Truthy(a.file) /\ ~Truthy(a.manifest)
    THEN ArgumentError("raise_on_invalid_manifest_options",
                       <<"Cannot specify ", FMT_FILE_OPTION, " argument without ",
                         FMT_MANIFEST_OPTION, ".">>)
    ELSE NoError

M_invalid_nagios_options(a) ==
    LET by == "raise_on_invalid_nagios_options" IN
    IF ~a.nagios THEN NoError
    ELSE IF Truthy(a.cve)
         THEN raise_incompatible_arguments_error(by, FMT_NAGIOS_OPTION, FMT_CVE_OPTION)
    ELSE IF a.silent
         THEN raise_incompatible_arguments_error(by, FMT_NAGIOS_OPTION, FMT_SILENT_OPTION)
    ELSE IF a.unresolved
         THEN raise_incompatible_arguments_error(by, FMT_NAGIOS_OPTION, FMT_UNRESOLVED_OPTION)
    ELSE NoError

invalid_nagios_options(a) ==
    LET by == "raise_on_invalid_nagios_options" IN
    IF ~a.nagios THEN NoError
    ELSE IF Truthy(a.cve)
         THEN raise_incompatible_arguments_error(by, FMT_NAGIOS_OPTION, FMT_CVE_OPTION)
    ELSE IF a.silent
         THEN raise_incompatible_arguments_error(by, FMT_NAGIOS_OPTION, FMT_SILENT_OPTION)
    ELSE IF a.unresolved
         THEN raise_incompatible_arguments_error(by, FMT_NAGIOS_OPTION, FMT_UNRESOLVED_OPTION)
    ELSE IF a.uct_links
         THEN raise_incompatible_arguments_error(by, FMT_NAGIOS_OPTION, FMT_UCT_LINKS_OPTION)
    ELSE NoError

M_invalid_silent_options(a) ==
    LET by == "raise_on_invalid_silent_options" IN
    IF ~a.silent THEN NoError
    ELSE IF ~Truthy(a.cve)
         THEN ArgumentError(by, <<"Cannot specify ", FMT_SILENT_OPTION,
                                  " argument without ", FMT_CVE_OPTION, ".">>)
    ELSE IF a.uct_links
         THEN raise_incompatible_arguments_error(by, FMT_SILENT_OPTION, FMT_UCT_LINKS_OPTION)
    ELSE NoError

invalid_silent_options(a) ==
    LET by == "raise_on_invalid_silent_options" IN
    IF ~a.silent THEN NoError
    ELSE IF ~Truthy(a.cve)
         THEN ArgumentError(by, <<"Cannot specify ", FMT_SILENT_OPTION,
                                  " argument without ", FMT_CVE_OPTION, ".">>)
    ELSE IF a.verbose
         THEN raise_incompatible_arguments_error(by, FMT_SILENT_OPTION, FMT_VERBOSE_OPTION)
    ELSE IF a.uct_links
         THEN raise_incompatible_arguments_error(by, FMT_SILENT_OPTION, FMT_UCT_LINKS_OPTION)
    ELSE NoError

invalid_unresolved_options(a) ==
    LET by == "raise_on_invalid_unresolved_options" IN
    IF a.unresolved /\ Truthy(a.cve)
    THEN raise_incompatible_arguments_error(by, FMT_UNRESOLVED_OPTION, FMT_CVE_OPTION)
    ELSE IF a.unresolved /\ a.nagios
    THEN raise_incompatible_arguments_error(by, FMT_UNRESOLVED_OPTION, FMT_NAGIOS_OPTION)
    ELSE NoError

missing_file(by, file_path) ==
    IF ~Truthy(file_path) THEN NoError
    ELSE LET file_abs_path == abspath(file_path) IN
         IF ~isfile(file_abs_path)
         THEN ArgumentError(by, <<"Cannot find file \"">> \o file_abs_path
                                \o <<"\". Current working directory is \"">>
                                \o getcwd \o <<"\".">>)
         ELSE NoError

missing_manifest_file(a) == missing_file("raise_on_missing_manifest_file", a.file)

missing_oval_file(a) == missing_file("raise_on_missing_oval_file", a.oval_file)

\* ------------------------------------------------------------------------
\* The methods of Options that assign attributes: each is the object after
\* the method, given the object s before it
\* ------------------------------------------------------------------------
set_mode(s, a) ==
    ("manifest_mode" :> Truthy(a.manifest))
        @@ ("experimental_mode" :> a.experimental)
        @@ ("nagios_mode" :> a.nagios)
        @@ s

set_distrib_codename(s, a, si) ==
    ("distrib_codename" :> IF s.manifest_mode THEN a.manifest
                           ELSE si.distrib_codename) @@ s

\* the two prefixes applied in the other order
M5_set_oval_file_options(s, a, si) ==
    LET s0 == ("oval_base_url" :> None) @@ s
        url0 == OVAL_BASE_URL
        file0 == <<"c", "o", "m", ".", "u", "b", "u", "n", "t", "u", ".">> \o s.distrib_codename \o <<".", "c", "v", "e", ".", "o", "v", "a", "l", ".", "x", "m", "l">>
        file1 == IF s.experimental_mode THEN <<"a", "l", "p", "h", "a", ".">> \o file0 ELSE file0
        url2 == IF s.experimental_mode THEN url0 \o <<"/", "a", "l", "p", "h", "a">> ELSE url0
        file2 == IF s.manifest_mode THEN <<"o", "c", "i", ".">> \o file1 ELSE file1
    IN  IF Truthy(a.oval_file)
        THEN ("oval_file" :> a.oval_file) @@ s0
        ELSE ("oval_base_url" :> url2)
                 @@ ("oval_file" :> file2)
                 @@ ("oval_zip" :> file2 \o <<".", "b", "z", "2">>)
                 @@ s0

\* the base URL assigned before the test of args.oval_file
M6_set_oval_file_options(s, a, si) ==
    LET s0 == ("oval_base_url" :> OVAL_BASE_URL) @@ s
        url0 == OVAL_BASE_URL
        file0 == <<"c", "o", "m", ".", "u", "b", "u", "n", "t", "u", ".">> \o s.distrib_codename \o <<".", "c", "v", "e", ".", "o", "v", "a", "l", ".", "x", "m", "l">>
        file1 == IF s.manifest_mode THEN <<"o", "c", "i", ".">> \o file0 ELSE file0
        url2 == IF s.experimental_mode THEN url0 \o <<"/", "a", "l", "p", "h", "a">> ELSE url0
        file2 == IF s.experimental_mode THEN <<"a", "l", "p", "h", "a", ".">> \o file1 ELSE file1
    IN  IF Truthy(a.oval_file)
        THEN ("oval_file" :> a.oval_file) @@ s0
        ELSE ("oval_base_url" :> url2)
                 @@ ("oval_file" :> file2)
                 @@ ("oval_zip" :> file2 \o <<".", "b", "z", "2">>)
                 @@ s0

set_oval_file_options(s, a, si) ==
    LET s0 == ("oval_base_url" :> None) @@ s
        url0 == OVAL_BASE_URL
        file0 == <<"c", "o", "m", ".", "u", "b", "u", "n", "t", "u", ".">> \o s.distrib_codename \o <<".", "c", "v", "e", ".", "o", "v", "a", "l", ".", "x", "m", "l">>
        file1 == IF s.manifest_mode THEN <<"o", "c", "i", ".">> \o file0 ELSE file0
        url2 == IF s.experimental_mode THEN url0 \o <<"/", "a", "l", "p", "h", "a">> ELSE url0
        file2 == IF s.experimental_mode THEN <<"a", "l", "p", "h", "a", ".">> \o file1 ELSE file1
    IN  IF Truthy(a.oval_file)
        THEN ("oval_file" :> a.oval_file) @@ s0
        ELSE ("oval_base_url" :> url2)
                 @@ ("oval_file" :> file2)
                 @@ ("oval_zip" :> file2 \o <<".", "b", "z", "2">>)
                 @@ s0

\* manifest_url set whenever manifest_mode holds
M_set_manifest_file_options(s, a) ==
    LET manifest_url_tmp ==
            MANIFEST_URL_TEMPLATE(s.distrib_codename, s.distrib_codename)
    IN  ("manifest_file" :> IF Truthy(a.file) THEN abspath(a.file) ELSE None)
            @@ ("manifest_url" :> IF s.manifest_mode
                                  THEN manifest_url_tmp ELSE None)
            @@ s

set_manifest_file_options(s, a) ==
    LET manifest_url_tmp ==
            MANIFEST_URL_TEMPLATE(s.distrib_codename, s.distrib_codename)
    IN  ("manifest_file" :> IF Truthy(a.file) THEN abspath(a.file) ELSE None)
            @@ ("manifest_url" :> IF s.manifest_mode /\ ~Truthy(a.file)
                                  THEN manifest_url_tmp ELSE None)
            @@ s

set_output_verbosity(s, a) ==
    ("verbose_oscap_options" :>
         IF a.verbose
         THEN <<"-", "-", "v", "e", "r", "b", "o", "s", "e", " ", "W", "A", "R", "N", "I", "N", "G", " ", "-", "-", "v", "e", "r", "b", "o", "s", "e", "-", "l", "o", "g", "-", "f", "i", "l", "e", " ">> \o DEBUG_LOG
         ELSE <<>>) @@ s

\* the assignments at the end of __init__
set_fields(s, a) ==
    ("cve" :> a.cve) @@ ("priority" :> a.priority)
        @@ ("unresolved" :> a.unresolved) @@ ("uct_links" :> a.uct_links) @@ s

\* the property download_oval_file
download_oval_file(s) == s.oval_base_url # None

\* ------------------------------------------------------------------------
\* Control flow: the calls made by Options.__init__, in program order
\* ------------------------------------------------------------------------
\* the silent rules checked before the nagios rules
M_raise_on_invalid_combinations_calls ==
    << "raise_on_invalid_manifest_options",
       "raise_on_invalid_silent_options",
       "raise_on_invalid_nagios_options",
       "raise_on_invalid_unresolved_options" >>

raise_on_invalid_combinations_calls ==
    << "raise_on_invalid_manifest_options",
       "raise_on_invalid_nagios_options",
       "raise_on_invalid_silent_options",
       "raise_on_invalid_unresolved_options" >>

raise_on_invalid_args_calls ==
    << "raise_on_invalid_cve" >>
        \o raise_on_invalid_combinations_calls
        \o << "raise_on_missing_manifest_file", "raise_on_missing_oval_file" >>

\* the mode attributes assigned before the arguments are validated
M_init_calls ==
    << "_set_mode" >>
        \o raise_on_invalid_args_calls
        \o << "_set_distrib_codename", "_set_oval_file_options",
              "_set_manifest_file_options", "_set_output_verbosity",
              "set_fields" >>

init_calls ==
    raise_on_invalid_args_calls
        \o << "_set_mode", "_set_distrib_codename", "_set_oval_file_options",
              "_set_manifest_file_options", "_set_output_verbosity",
              "set_fields" >>

\* pc is the index in init_calls of the next call, PcReturned after the
\* last one, PcRaised once an exception has left __init__; calls records
\* the functions called so far
PcRaised == 0

PcReturned == Len(init_calls) + 1

At(name) == pc \in 1 .. Len(init_calls) /\ init_calls[pc] = name

\* a validation function: raises e, or returns to the next call
Check(e) ==
    /\ IF e # NoError
       THEN err' = e /\ pc' = PcRaised
       ELSE err' = err /\ pc' = pc + 1
    /\ calls' = Append(calls, init_calls[pc])
    /\ UNCHANGED <<args, sysinfo, self>>

\* a method that assigns attributes and returns
Assign(s) ==
    /\ self' = s
    /\ pc' = pc + 1
    /\ calls' = Append(calls, init_calls[pc])
    /\ UNCHANGED <<args, sysinfo, err>>

\* ------------------------------------------------------------------------
\* Inputs
\* ------------------------------------------------------------------------
Rep(c, n) == [i \in 1 .. n |-> c]

CveInputs ==
    { None, <<>>, <<"c", "v", "e", "-", "2", "2", "2", "2", "-", "7", "7", "7", "7">>, <<"C", "V", "E", "-", "2", "2", "2", "2", "-", "7", "7", "x", "7">>, <<"C", "V", "E", "-", "2", "2", "2", "2", "-", "7", "7", "7", "7", "\n">> }
        \cup { <<"C", "V", "E", "-">> \o Rep("2", y) \o <<"-">> \o Rep("7", n) :
                   y \in MinYearDigits .. MaxYearDigits,
                   n \in MinSeqDigits .. MaxSeqDigits }

FileInputs == { None, <<>>, <<".", "/", "m">>, <<"/", "x">> }

ManifestInputs == { None, <<>>, <<"f", "o", "c", "a", "l">> }

OvalFileInputs == { None, <<>>, <<"/", "o">>, <<"n">> }

PriorityInputs == { <<"a", "l", "l">> }

CodenameInputs == { <<"b", "i", "o", "n", "i", "c">> }

Args ==
    [ cve : CveInputs, experimental : BOOLEAN, file : FileInputs,
      manifest : ManifestInputs, nagios : BOOLEAN, uct_links : BOOLEAN,
      oval_file : OvalFileInputs, priority : PriorityInputs,
      silent : BOOLEAN, unresolved : BOOLEAN, verbose : BOOLEAN ]

SysInfo == [ distrib_codename : CodenameInputs ]

\* ------------------------------------------------------------------------
\* The state machine
\* ------------------------------------------------------------------------
Init ==
    /\ args \in Args
    /\ sysinfo \in SysInfo
    /\ pc = 1
    /\ self = <<>>
    /\ err = NoError
    /\ calls = <<>>

raise_on_invalid_cve ==
    At("raise_on_invalid_cve") /\ Check(invalid_cve(args))

raise_on_invalid_manifest_options ==
    At("raise_on_invalid_manifest_options") /\ Check(invalid_manifest_options(args))

raise_on_invalid_nagios_options ==
    At("raise_on_invalid_nagios_options") /\ Check(invalid_nagios_options(args))

raise_on_invalid_silent_options ==
    At("raise_on_invalid_silent_options") /\ Check(invalid_silent_options(args))

raise_on_invalid_unresolved_options ==
    At("raise_on_invalid_unresolved_options") /\ Check(invalid_unresolved_options(args))

raise_on_missing_manifest_file ==
    At("raise_on_missing_manifest_file") /\ Check(missing_manifest_file(args))

raise_on_missing_oval_file ==
    At("raise_on_missing_oval_file") /\ Check(missing_oval_file(args))

_set_mode ==
    At("_set_mode") /\ Assign(set_mode(self, args))

_set_distrib_codename ==
    At("_set_distrib_codename") /\ Assign(set_distrib_codename(self, args, sysinfo))

_set_oval_file_options ==
    At("_set_oval_file_options") /\ Assign(set_oval_file_options(self, args, sysinfo))

_set_manifest_file_options ==
    At("_set_manifest_file_options") /\ Assign(set_manifest_file_options(self, args))

_set_output_verbosity ==
    At("_set_output_verbosity") /\ Assign(set_output_verbosity(self, args))

init_fields ==
    At("set_fields") /\ Assign(set_fields(self, args))

Next ==
    \/ raise_on_invalid_cve
    \/ raise_on_invalid_manifest_options
    \/ raise_on_invalid_nagios_options
    \/ raise_on_invalid_silent_options
    \/ raise_on_invalid_unresolved_options
    \/ raise_on_missing_manifest_file
    \/ raise_on_missing_oval_file
    \/ _set_mode
    \/ _set_distrib_codename
    \/ _set_oval_file_options
    \/ _set_manifest_file_options
    \/ _set_output_verbosity
    \/ init_fields

Spec == Init /\ [][Next]_vars

\* ------------------------------------------------------------------------
\* Terminal states
\* ------------------------------------------------------------------------
Raised == pc = PcRaised

Resolved == pc = PcReturned

Finished == Raised \/ Resolved

TypeOK ==
    /\ args \in Args
    /\ pc \in 0 .. PcReturned
    /\ err.kind \in {"NoError", "ArgumentError", "ValueError"}
    /\ (Raised <=> err # NoError)

\* ------------------------------------------------------------------------
\* Vocabulary of the properties
\* ------------------------------------------------------------------------
\* the CVE format check rejects args.cve
CveRejected == args.cve # None /\ ~cve_regex_match(args.cve)

\* args.cve is CVE-, four digits, -, four or more digits, and nothing else
WellFormedCve == args.cve # None /\ CveRegexBody(args.cve)

NagiosConflict ==
    args.nagios /\ (Truthy(args.cve) \/ args.silent \/ args.unresolved \/ args.uct_links)

FileWithoutManifest == Truthy(args.file) /\ ~Truthy(args.manifest)

SilentViolation ==
    args.silent /\ (~Truthy(args.cve) \/ args.verbose \/ args.uct_links)

UnresolvedConflict == args.unresolved /\ (Truthy(args.cve) \/ args.nagios)

FileMissing == Truthy(args.file) /\ abspath(args.file) \notin RegularFiles

OvalFileMissing == Truthy(args.oval_file) /\ abspath(args.oval_file) \notin RegularFiles

Assigned(name) == name \in DOMAIN self

\* ------------------------------------------------------------------------
\* C1 (as stated): whenever nagios is set together with cve, silent,
\* unresolved or uct_links, whatever the other arguments and the value of
\* cve, construction fails with ArgumentError.
\* ------------------------------------------------------------------------
C1_NagiosAlwaysArgumentError ==
    (Finished /\ NagiosConflict) => (Raised /\ err.kind = "ArgumentError")

\* C1 (amended): whenever nagios is set together with cve, silent,
\* unresolved or uct_links, and cve is absent or passes the CVE format
\* check, construction fails with ArgumentError.
C1_NagiosArgumentErrorUnlessCveRejected ==
    (Finished /\ NagiosConflict /\ ~CveRejected)
        => (Raised /\ err.kind = "ArgumentError")

C1_Witness ==
    /\ Raised
    /\ args.nagios /\ args.uct_links
    /\ args.cve = None /\ ~args.silent /\ ~args.unresolved
    /\ err = raise_incompatible_arguments_error("raise_on_invalid_nagios_options",
                                                FMT_NAGIOS_OPTION, FMT_UCT_LINKS_OPTION)

\* ------------------------------------------------------------------------
\* C2 (as stated): whenever file is set and manifest is not, whatever the
\* other arguments, construction fails with ArgumentError.
\* ------------------------------------------------------------------------
C2_FileWithoutManifestAlwaysArgumentError ==
    (Finished /\ FileWithoutManifest) => (Raised /\ err.kind = "ArgumentError")

\* C2 (amended): whenever file is set and manifest is not, and cve is absent
\* or passes the CVE format check, construction fails with ArgumentError.
C2_FileWithoutManifestUnlessCveRejected ==
    (Finished /\ FileWithoutManifest /\ ~CveRejected)
        => (Raised /\ err.kind = "ArgumentError")

C2_Witness ==
    /\ Raised
    /\ args.file = <<".", "/", "m">> /\ args.manifest = None
    /\ ~args.nagios /\ ~args.silent /\ ~args.unresolved
    /\ err.by = "raise_on_invalid_manifest_options"

\* ------------------------------------------------------------------------
\* C3 (as stated): whenever cve is present and is not CVE-<4 digits>-<4 or
\* more digits>, construction fails with the error kind of a malformed CVE
\* identifier (ValueError in the source), whatever the other arguments.
\* ------------------------------------------------------------------------
C3_MalformedCveRaisesValueError ==
    (Finished /\ args.cve # None /\ ~WellFormedCve)
        => (Raised /\ err.kind = "ValueError")

\* ------------------------------------------------------------------------
\* C4 (as stated): every constructed Options has oval_zip assigned, equal to
\* oval_file followed by ".bz2", whether oval_file was derived or supplied.
\* ------------------------------------------------------------------------
C4_OvalZipAlways ==
    Resolved => (Assigned("oval_zip") /\ self.oval_zip = self.oval_file \o <<".", "b", "z", "2">>)

\* ------------------------------------------------------------------------
\* C5: when no oval_file is supplied and validation passes, oval_file is
\* ["alpha." if experimental] + ["oci." if manifest_mode] +
\* "com.ubuntu.<codename>.cve.oval.xml" and oval_base_url is the fixed URL
\* with "/alpha" appended iff experimental; codename is the manifest value
\* when manifest is truthy, sysinfo.distrib_codename otherwise.
\* ------------------------------------------------------------------------
C5_Codename ==
    IF Truthy(args.manifest) THEN args.manifest ELSE sysinfo.distrib_codename

C5_ExpectedOvalFile ==
    (IF args.experimental THEN <<"a", "l", "p", "h", "a", ".">> ELSE <<>>)
        \o (IF Truthy(args.manifest) THEN <<"o", "c", "i", ".">> ELSE <<>>)
        \o <<"c", "o", "m", ".", "u", "b", "u", "n", "t", "u", ".">> \o C5_Codename \o <<".", "c", "v", "e", ".", "o", "v", "a", "l", ".", "x", "m", "l">>

C5_ExpectedBaseUrl ==
    <<"h", "t", "t", "p", "s", ":", "/", "/", "p", "e", "o", "p", "l", "e", ".", "c", "a", "n", "o", "n", "i", "c", "a", "l", ".", "c", "o", "m", "/", "~", "u", "b", "u", "n", "t", "u", "-", "s", "e", "c", "u", "r", "i", "t", "y", "/", "o", "v", "a", "l">>
        \o (IF args.experimental THEN <<"/", "a", "l", "p", "h", "a">> ELSE <<>>)

C5_DerivedOvalFile ==
    (Resolved /\ ~Truthy(args.oval_file))
        => /\ self.oval_file = C5_ExpectedOvalFile
           /\ self.oval_base_url = C5_ExpectedBaseUrl
           /\ self.distrib_codename = C5_Codename
           /\ self.manifest_mode = Truthy(args.manifest)

C5_Witness ==
    /\ Resolved
    /\ args.oval_file = None /\ args.experimental /\ args.manifest = <<"f", "o", "c", "a", "l">>
    /\ self.oval_file = <<"a", "l", "p", "h", "a", ".", "o", "c", "i", ".", "c", "o", "m", ".", "u", "b", "u", "n", "t", "u", ".", "f", "o", "c", "a", "l", ".", "c", "v", "e", ".", "o", "v", "a", "l", ".", "x", "m", "l">>
    /\ self.oval_base_url = <<"h", "t", "t", "p", "s", ":", "/", "/", "p", "e", "o", "p", "l", "e", ".", "c", "a", "n", "o", "n", "i", "c", "a", "l", ".", "c", "o", "m", "/", "~", "u", "b", "u", "n", "t", "u", "-", "s", "e", "c", "u", "r", "i", "t", "y", "/", "o", "v", "a", "l", "/", "a", "l", "p", "h", "a">>

\* ------------------------------------------------------------------------
\* C6: when oval_file is supplied and names an existing file, the resolved
\* oval_file is that value verbatim, oval_base_url is None and
\* download_oval_file is false; in every constructed Options,
\* download_oval_file iff oval_base_url is not None iff oval_file was
\* derived rather than supplied.
\* ------------------------------------------------------------------------
C6_SuppliedOvalFile ==
    Resolved
        => /\ Truthy(args.oval_file)
                => /\ self.oval_file = args.oval_file
                   /\ self.oval_base_url = None
                   /\ ~download_oval_file(self)
           /\ download_oval_file(self) <=> (self.oval_base_url # None)
           /\ (self.oval_base_url # None) <=> ~Truthy(args.oval_file)

C6_Witness ==
    /\ Resolved
    /\ args.oval_file = <<"/", "o">> /\ args.experimental /\ args.manifest = <<"f", "o", "c", "a", "l">>
    /\ self.oval_file = <<"/", "o">>
    /\ ~download_oval_file(self)

\* ------------------------------------------------------------------------
\* C7: in every constructed Options, manifest_url is not None iff
\* manifest_mode holds and no file was given, and manifest_file is not None
\* iff file was given; so the two are never both set, and a manifest_file
\* implies manifest_mode.
\* ------------------------------------------------------------------------
C7_ManifestFields ==
    Resolved
        => /\ (self.manifest_url # None) <=> (self.manifest_mode /\ ~Truthy(args.file))
           /\ (self.manifest_file # None) <=> Truthy(args.file)
           /\ ~(self.manifest_url # None /\ self.manifest_file # None)
           /\ (self.manifest_file # None) => self.manifest_mode

C7_Witness ==
    /\ Resolved
    /\ args.file = <<".", "/", "m">>
    /\ self.manifest_file = <<"/", "w", "/", "m">>
    /\ self.manifest_url = None
    /\ self.manifest_mode

\* ------------------------------------------------------------------------
\* C8: construction is all-or-nothing: every validation check has run before
\* any attribute is assigned, so when a check fails no attribute of the
\* object has been set and the constructor does not return.
\* ------------------------------------------------------------------------
C8_ValidationCalls ==
    { "raise_on_invalid_cve", "raise_on_invalid_manifest_options",
      "raise_on_invalid_nagios_options", "raise_on_invalid_silent_options",
      "raise_on_invalid_unresolved_options", "raise_on_missing_manifest_file",
      "raise_on_missing_oval_file" }

C8_Called == { calls[i] : i \in 1 .. Len(calls) }

C8_AllOrNothing ==
    /\ (DOMAIN self # {}) => (C8_ValidationCalls \subseteq C8_Called /\ err = NoError)
    /\ (err # NoError) => (DOMAIN self = {} /\ ~Resolved)

C8_Witness ==
    /\ Raised
    /\ err.by = "raise_on_missing_oval_file"
    /\ Len(calls) = Cardinality(C8_ValidationCalls)
    /\ DOMAIN self = {}

\* ------------------------------------------------------------------------
\* C9: with cve absent or well-formed and silent set, construction fails
\* with ArgumentError if cve is not set, verbose is set or uct_links is set;
\* silent with manifest and cve, without verbose or uct_links, is accepted:
\* the silent rules raise nothing, and construction succeeds when no other
\* rule is violated.
\* ------------------------------------------------------------------------
C9_SilentRules ==
    (Finished /\ args.silent /\ ~CveRejected)
        => /\ (~Truthy(args.cve) \/ args.verbose \/ args.uct_links)
                => (Raised /\ err.kind = "ArgumentError")
           /\ (Truthy(args.cve) /\ Truthy(args.manifest)
                   /\ ~args.verbose /\ ~args.uct_links)
                => /\ err.by # "raise_on_invalid_silent_options"
                   /\ (~args.nagios /\ ~args.unresolved
                           /\ ~FileMissing /\ ~OvalFileMissing) => Resolved

C9_Witness ==
    /\ Resolved
    /\ args.silent /\ args.manifest = <<"f", "o", "c", "a", "l">> /\ WellFormedCve
    /\ self.manifest_mode

\* ------------------------------------------------------------------------
\* C10: the checks run in the order CVE format, file without manifest,
\* nagios conflicts, silent rules, unresolved conflicts, existence of file,
\* existence of oval_file, and the error raised is that of the first check
\* violated; the conflict of unresolved with nagios is always reported by
\* the nagios check.
\* ------------------------------------------------------------------------
C10_Order ==
    << "raise_on_invalid_cve", "raise_on_invalid_manifest_options",
       "raise_on_invalid_nagios_options", "raise_on_invalid_silent_options",
       "raise_on_invalid_unresolved_options", "raise_on_missing_manifest_file",
       "raise_on_missing_oval_file" >>

C10_Violated ==
    << CveRejected, FileWithoutManifest, NagiosConflict, SilentViolation,
       UnresolvedConflict, FileMissing, OvalFileMissing >>

C10_FirstViolated ==
    IF \E i \in 1 .. Len(C10_Order) : C10_Violated[i]
    THEN C10_Order[CHOOSE i \in 1 .. Len(C10_Order) :
                       C10_Violated[i] /\ \A j \in 1 .. (i - 1) : ~C10_Violated[j]]
    ELSE ""

C10_IsPrefix(s, t) == Len(s) <= Len(t) /\ s = SubSeq(t, 1, Len(s))

C10_FirstFailureWins ==
    /\ C10_IsPrefix(calls, C10_Order) \/ C10_IsPrefix(C10_Order, calls)
    /\ Finished
         => /\ err.by = C10_FirstViolated
            /\ Raised <=> (C10_FirstViolated # "")
            /\ Raised => calls[Len(calls)] = C10_FirstViolated
            /\ err # raise_incompatible_arguments_error(
                         "raise_on_invalid_unresolved_options",
                         FMT_UNRESOLVED_OPTION, FMT_NAGIOS_OPTION)

C10_Witness ==
    /\ Raised
    /\ args.unresolved /\ args.nagios /\ args.cve = None /\ ~args.silent
    /\ args.file = <<"/", "x">> /\ args.manifest = <<"f", "o", "c", "a", "l">>
    /\ err = raise_incompatible_arguments_error("raise_on_invalid_nagios_options",
                                                FMT_NAGIOS_OPTION, FMT_UNRESOLVED_OPTION)

====
